---- MODULE Spec2Model ----
(***************************************************************************)
(* A model of the gohome-timer backend (src/main.py): the in-memory rate   *)
(* limiter, the failed-login counters, the JWT access/refresh tokens, the  *)
(* three admin handlers (login, refresh, set-time) and the read handler    *)
(* over the timer_settings table.                                          *)
(*                                                                         *)
(* Time is in whole seconds.  PyJWT is modelled by what it checks: a token *)
(* is the payload together with the key that signed it, decoding compares  *)
(* the key and then the exp claim with the clock.                          *)
(***************************************************************************)
EXTENDS Integers, Sequences, FiniteSets, TLC

VARIABLES
    now,                 \* the wall clock read by datetime.utcnow()
    JWT_SECRET,          \* process configuration, fixed at startup
    REFRESH_SECRET,
    ADMIN_PASSWORD,      \* slug -> configured password (NoPw when unset)
    rate_limit_state,    \* _rate_limit_state: state_key -> entry
    failed_login_state,  \* _failed_login_state: key -> int
    timer_settings,      \* the table: slug -> row or NoRow
    resp,                \* the response served at this instant, if any
    printed,             \* the failure count it printed (0: nothing)
    wallet,              \* the tokens the client received last
    acked,               \* slug -> the time set-time last confirmed for it
    history,             \* state_key -> the Allowed results of its window
                         \*   and the time of its last block
    threads,             \* the worker threads inside check_rate_limit
    orphans              \* entry objects no longer held by _rate_limit_state

vars == <<now, JWT_SECRET, REFRESH_SECRET, ADMIN_PASSWORD, rate_limit_state,
          failed_login_state, timer_settings, resp, printed, wallet, acked,
          history, threads, orphans>>

config == <<JWT_SECRET, REFRESH_SECRET, ADMIN_PASSWORD>>

-----------------------------------------------------------------------------
(* Program constants *)

WarnThreshold == 5

\* Mutant: a caller is blocked once its requests pass the warning threshold.
LoginLimit_AtWarning == WarnThreshold

LoginLimit == 10
RefreshLimit == 30
WindowSec == 60
BlockSec == 3600
AccessMinutes == 15
RefreshDays == 7
DefaultAccessHours == 12
DefaultHour == 18
DefaultMinute == 0

AccessTtl == AccessMinutes * 60
RefreshTtl == RefreshDays * 86400
DefaultAccessTtl == DefaultAccessHours * 3600

Slugs == {"se", "min", "tutoring"}

(* Bounds of the model *)

Epoch0 == 1700000000    \* the clock at startup
MaxSkew == 1            \* the clock visits each duration's end, give or
                        \*   take this many seconds
MaxBurst == 2           \* requests per window of a caller in the API scenarios
MaxFailed == 10         \* cap on a failed-login counter
MaxThreads == 2         \* worker threads of the concurrent scenario

-----------------------------------------------------------------------------
(* Values *)

NoPw == "<None>"        \* os.getenv returned None
NoClaim == "<no claim>" \* payload.get("slug") is None
\* A token is the payload and the key that signed it.  A string that is no
\* JWT verifies under no key; a response without a token carries NoToken.
Garbage == [key |-> "", slug |-> NoClaim, exp |-> 0]
NoToken == [key |-> "<absent>", slug |-> NoClaim, exp |-> 0]
NoHeader == [scheme |-> "", token |-> NoToken]

Ips == {"10.0.0.1", "10.0.0.2"}
Keys == {"k1", "k2"}
ForeignKey == "kx"
SlugClaims == Slugs \cup {"other", NoClaim}

\* Mutant: the entry is keyed by the caller alone.
StateKey_IpOnly(ip, key) == ip

StateKey(ip, key) == ip \o ":" \o key

-----------------------------------------------------------------------------
(* Token service: jwt.encode / jwt.decode *)

Encode(payload, secret) ==
    [key |-> secret, slug |-> payload.slug, exp |-> payload.exp]

Expired(exp, t) == exp <= t

\* jwt.decode: the signature is verified first, then the exp claim; the
\* result is "invalid" (PyJWTError), "expired" (ExpiredSignatureError) or
\* "ok" with the payload.
Decode(token, secret, t) ==
    IF token.key # secret
    THEN [result |-> "invalid", slug |-> NoClaim, exp |-> 0]
    ELSE IF Expired(token.exp, t)
    THEN [result |-> "expired", slug |-> NoClaim, exp |-> 0]
    ELSE [result |-> "ok", slug |-> token.slug, exp |-> token.exp]

\* Mutant: the lifetime asked for is dropped, the default of 12 hours used.
create_access_token_DefaultTtl(slug, expires_delta, t) ==
    Encode([slug |-> slug, exp |-> t + DefaultAccessTtl], JWT_SECRET)

create_access_token(slug, expires_delta, t) ==
    Encode([slug |-> slug,
            exp |-> t + (IF expires_delta = 0 THEN DefaultAccessTtl
                         ELSE expires_delta)],
           JWT_SECRET)

get_admin_password(slug) ==
    IF slug \in Slugs THEN ADMIN_PASSWORD[slug] ELSE NoPw

-----------------------------------------------------------------------------
(* Rate limiter: check_rate_limit as one atomic call *)

\* Mutant: the first request of an entry is not counted.
NewEntry_Uncounted(t) == [window_start |-> t, count |-> 0, blocked_until |-> 0]

NewEntry(t) == [window_start |-> t, count |-> 1, blocked_until |-> 0]

\* Mutant: the block still holds at the instant it ends.
IsBlocked_Inclusive(info, t) == info.blocked_until >= t

IsBlocked(info, t) == info.blocked_until > t

WindowExpired(t, window_start, window_sec) == t - window_start > window_sec

\* Mutant: one call too many passes.
OverLimit_Late(count, limit) == count > limit + 1

OverLimit(count, limit) == count > limit

\* Mutant: the window is looked at before the block.
check_rate_limit_WindowFirst(rl, t, ip, key, limit, window_sec, block_sec) ==
    LET state_key == StateKey(ip, key) IN
    IF state_key \notin DOMAIN rl
    THEN [ok |-> TRUE, fresh |-> TRUE, st |-> (state_key :> NewEntry(t)) @@ rl]
    ELSE
      LET info == rl[state_key] IN
      IF WindowExpired(t, info.window_start, window_sec)
      THEN [ok |-> TRUE, fresh |-> TRUE,
            st |-> [rl EXCEPT ![state_key] = NewEntry(t)]]
      ELSE IF IsBlocked(info, t)
      THEN [ok |-> FALSE, fresh |-> FALSE, st |-> rl]
      ELSE
        LET count == info.count + 1 IN
        IF OverLimit(count, limit)
        THEN [ok |-> FALSE, fresh |-> FALSE,
              st |-> [rl EXCEPT ![state_key] =
                        [info EXCEPT !.count = count,
                                     !.blocked_until = t + block_sec]]]
        ELSE [ok |-> TRUE, fresh |-> FALSE,
              st |-> [rl EXCEPT ![state_key] = [info EXCEPT !.count = count]]]

\* The outcome of check_rate_limit(ip, key, limit, window_sec, block_sec) on
\* the map rl at time t: ok (returned) or not (raised 429), the map after
\* the call, and whether the call started a window.
check_rate_limit(rl, t, ip, key, limit, window_sec, block_sec) ==
    LET state_key == StateKey(ip, key) IN
    IF state_key \notin DOMAIN rl
    THEN [ok |-> TRUE, fresh |-> TRUE, st |-> (state_key :> NewEntry(t)) @@ rl]
    ELSE
      LET info == rl[state_key] IN
      IF IsBlocked(info, t)
      THEN [ok |-> FALSE, fresh |-> FALSE, st |-> rl]
      ELSE IF WindowExpired(t, info.window_start, window_sec)
      THEN [ok |-> TRUE, fresh |-> TRUE,
            st |-> [rl EXCEPT ![state_key] = NewEntry(t)]]
      ELSE
        LET count == info.count + 1 IN
        IF OverLimit(count, limit)
        THEN [ok |-> FALSE, fresh |-> FALSE,
              st |-> [rl EXCEPT ![state_key] =
                        [info EXCEPT !.count = count,
                                     !.blocked_until = t + block_sec]]]
        ELSE [ok |-> TRUE, fresh |-> FALSE,
              st |-> [rl EXCEPT ![state_key] = [info EXCEPT !.count = count]]]

\* What a result adds to the history of its entry.  A result that started
\* a window at a later time than the window counted so far opens the count
\* of a new window; any other Allowed result adds to the count; a block
\* that started at t is noted.
Note(state_key, t, fresh, ok, blocks) ==
    IF fresh /\ (state_key \notin DOMAIN history
                 \/ t > history[state_key].window)
    THEN (state_key :>
            [window |-> t, allowed |-> 1,
             blocked_at |-> IF state_key \in DOMAIN history
                            THEN history[state_key].blocked_at ELSE 0])
         @@ history
    ELSE IF ok THEN [history EXCEPT ![state_key].allowed = @ + 1]
    ELSE IF blocks THEN [history EXCEPT ![state_key].blocked_at = t]
    ELSE history

Record(r, state_key, t) ==
    Note(state_key, t, r.fresh, r.ok, r.st # rate_limit_state)

-----------------------------------------------------------------------------
(* Responses *)

\* A response: the request it answers (op, the caller of a rate-limited
\* endpoint, the token the request carried), the status and the fields of
\* the body.  slug is the slug the request named (login, clock-out) or the
\* one the message of set-time names; password is the one a login supplied;
\* hour and minute are those set-time was asked for.
Response(op, ip, status) ==
    [op |-> op, ip |-> ip, presented |-> NoToken, hour |-> 0, minute |-> 0,
     password |-> "",
     status |-> status, access_token |-> NoToken, refresh_token |-> NoToken,
     slug |-> "", target_time |-> "", seconds_left |-> 0]

NoResponse == Response("", "", 0)

\* The client keeps the tokens of a response that carries some, and when it
\* got the access token.
Keep(r, t) ==
    [access |-> IF r.access_token # NoToken THEN r.access_token
                ELSE wallet.access,
     access_at |-> IF r.access_token # NoToken THEN t ELSE wallet.access_at,
     refresh |-> IF r.refresh_token # NoToken THEN r.refresh_token
                 ELSE wallet.refresh]

-----------------------------------------------------------------------------
(* POST /api/admin/login *)

LoginAnswer(ip, slug, status) ==
    [Response("login", ip, status) EXCEPT !.slug = slug]

\* Mutant: an unset or empty expected password is compared like any other.
PasswordOk_Compared(expected_pw, password) == password = expected_pw

\* line 306: not (not expected_pw or data.password != expected_pw)
PasswordOk(expected_pw, password) ==
    /\ expected_pw \notin {NoPw, ""}
    /\ password = expected_pw

\* Mutant: the warning starts one failure late.
Warns_Late(count) == count > WarnThreshold

\* line 310: if count >= 5
Warns(count) == count >= WarnThreshold

\* Mutant: a success leaves the counter as it is.
ResetFailed_Kept(failed_logins, key) == failed_logins

\* line 315: _failed_login_state[key] = 0
ResetFailed(failed_logins, key) == (key :> 0) @@ failed_logins

\* Mutant: the slug is validated before the rate limit is consulted.
admin_login_ValidateFirst(ip, slug, password) ==
    LET r == check_rate_limit(rate_limit_state, now, ip, "admin_login",
                              LoginLimit, WindowSec, BlockSec)
        key == StateKey(ip, slug)
        failed == IF key \in DOMAIN failed_login_state
                  THEN failed_login_state[key] ELSE 0
        expected_pw == get_admin_password(slug)
        answer(status) ==
            [LoginAnswer(ip, slug, status) EXCEPT !.password = password]
    IN
    /\ IF slug \notin Slugs
       THEN /\ resp' = answer(400)
            /\ printed' = 0
            /\ UNCHANGED <<rate_limit_state, history, failed_login_state>>
       ELSE /\ rate_limit_state' = r.st
            /\ history' = Record(r, StateKey(ip, "admin_login"), now)
            /\ IF ~r.ok
               THEN /\ resp' = answer(429)
                    /\ printed' = 0
                    /\ UNCHANGED failed_login_state
               ELSE IF ~PasswordOk(expected_pw, password)
               THEN /\ failed < MaxFailed
                    /\ failed_login_state' =
                         (key :> failed + 1) @@ failed_login_state
                    /\ printed' = IF Warns(failed + 1) THEN failed + 1 ELSE 0
                    /\ resp' = answer(403)
               ELSE /\ failed_login_state' =
                         ResetFailed(failed_login_state, key)
                    /\ printed' = 0
                    /\ resp' = [answer(200) EXCEPT
                         !.access_token =
                             create_access_token(slug, AccessTtl, now),
                         !.refresh_token =
                             Encode([slug |-> slug, exp |-> now + RefreshTtl],
                                    REFRESH_SECRET)]
    /\ wallet' = Keep(resp', now)
    /\ UNCHANGED <<now, config, timer_settings, threads, orphans, acked>>

admin_login(ip, slug, password) ==
    LET r == check_rate_limit(rate_limit_state, now, ip, "admin_login",
                              LoginLimit, WindowSec, BlockSec)
        key == StateKey(ip, slug)
        failed == IF key \in DOMAIN failed_login_state
                  THEN failed_login_state[key] ELSE 0
        expected_pw == get_admin_password(slug)
        answer(status) ==
            [LoginAnswer(ip, slug, status) EXCEPT !.password = password]
    IN
    /\ rate_limit_state' = r.st
    /\ history' = Record(r, StateKey(ip, "admin_login"), now)
    /\ IF ~r.ok
       THEN /\ resp' = answer(429)
            /\ printed' = 0
            /\ UNCHANGED failed_login_state
       ELSE IF slug \notin Slugs
       THEN /\ resp' = answer(400)
            /\ printed' = 0
            /\ UNCHANGED failed_login_state
       ELSE IF ~PasswordOk(expected_pw, password)
       THEN /\ failed < MaxFailed
            /\ failed_login_state' = (key :> failed + 1) @@ failed_login_state
            /\ printed' = IF Warns(failed + 1) THEN failed + 1 ELSE 0
            /\ resp' = answer(403)
       ELSE /\ failed_login_state' = ResetFailed(failed_login_state, key)
            /\ printed' = 0
            /\ resp' = [answer(200) EXCEPT
                 !.access_token = create_access_token(slug, AccessTtl, now),
                 !.refresh_token =
                     Encode([slug |-> slug, exp |-> now + RefreshTtl],
                            REFRESH_SECRET)]
    /\ wallet' = Keep(resp', now)
    /\ UNCHANGED <<now, config, timer_settings, threads, orphans, acked>>

(* POST /api/admin/refresh *)

\* Mutant: the refresh token is rotated, a new one is returned as well.
refresh_access_token_Rotating(ip, refresh_token) ==
    LET r == check_rate_limit(rate_limit_state, now, ip, "admin_refresh",
                              RefreshLimit, WindowSec, BlockSec)
        payload == Decode(refresh_token, REFRESH_SECRET, now)
        answer(status) ==
            [Response("refresh", ip, status) EXCEPT !.presented = refresh_token]
    IN
    /\ rate_limit_state' = r.st
    /\ history' = Record(r, StateKey(ip, "admin_refresh"), now)
    /\ resp' = IF ~r.ok THEN answer(429)
               ELSE IF payload.result # "ok" THEN answer(401)
               ELSE IF payload.slug \notin Slugs THEN answer(401)
               ELSE [answer(200) EXCEPT
                       !.access_token =
                           create_access_token(payload.slug, AccessTtl, now),
                       !.refresh_token =
                           Encode([slug |-> payload.slug,
                                   exp |-> now + RefreshTtl], REFRESH_SECRET)]
    /\ printed' = 0
    /\ wallet' = Keep(resp', now)
    /\ UNCHANGED <<now, config, failed_login_state, timer_settings, threads,
                   orphans, acked>>

refresh_access_token(ip, refresh_token) ==
    LET r == check_rate_limit(rate_limit_state, now, ip, "admin_refresh",
                              RefreshLimit, WindowSec, BlockSec)
        payload == Decode(refresh_token, REFRESH_SECRET, now)
        answer(status) ==
            [Response("refresh", ip, status) EXCEPT !.presented = refresh_token]
    IN
    /\ rate_limit_state' = r.st
    /\ history' = Record(r, StateKey(ip, "admin_refresh"), now)
    /\ resp' = IF ~r.ok THEN answer(429)
               ELSE IF payload.result # "ok" THEN answer(401)
               ELSE IF payload.slug \notin Slugs THEN answer(401)
               ELSE [answer(200) EXCEPT
                       !.access_token =
                           create_access_token(payload.slug, AccessTtl, now)]
    /\ printed' = 0
    /\ wallet' = Keep(resp', now)
    /\ UNCHANGED <<now, config, failed_login_state, timer_settings, threads,
                   orphans, acked>>

-----------------------------------------------------------------------------
(* Authenticated path: the bearer token of POST /api/admin/set-time *)

Bearer(token) == [scheme |-> "Bearer", token |-> token]

\* Mutant: the slug of the payload is not checked against the closed set.
get_current_slug_AnySlug(authorization, t) ==
    IF authorization.scheme # "Bearer"
    THEN [status |-> 401, slug |-> NoClaim]
    ELSE
      LET payload == Decode(authorization.token, JWT_SECRET, t) IN
      IF payload.result # "ok" THEN [status |-> 401, slug |-> NoClaim]
      ELSE [status |-> 200, slug |-> payload.slug]

\* Mutant: the slug claim is looked at before the exp claim.
get_current_slug_SlugFirst(authorization, t) ==
    IF authorization.scheme # "Bearer"
    THEN [status |-> 401, slug |-> NoClaim]
    ELSE IF authorization.token.key # JWT_SECRET
    THEN [status |-> 401, slug |-> NoClaim]
    ELSE IF authorization.token.slug \notin Slugs
    THEN [status |-> 403, slug |-> NoClaim]
    ELSE IF Expired(authorization.token.exp, t)
    THEN [status |-> 401, slug |-> NoClaim]
    ELSE [status |-> 200, slug |-> authorization.token.slug]

\* get_current_slug: status 200 with the slug, or the status it raises.
get_current_slug(authorization, t) ==
    IF authorization.scheme # "Bearer"
    THEN [status |-> 401, slug |-> NoClaim]
    ELSE
      LET payload == Decode(authorization.token, JWT_SECRET, t) IN
      IF payload.result # "ok" THEN [status |-> 401, slug |-> NoClaim]
      ELSE IF payload.slug \notin Slugs THEN [status |-> 403, slug |-> NoClaim]
      ELSE [status |-> 200, slug |-> payload.slug]

Digit == <<"0", "1", "2", "3", "4", "5", "6", "7", "8", "9">>

\* f"{n:02d}" for -9 <= n <= 99
Format02d(n) ==
    IF n < 0 THEN "-" \o Digit[(0 - n) + 1]
    ELSE Digit[(n \div 10) + 1] \o Digit[(n % 10) + 1]

TargetTime(h, m) == Format02d(h) \o ":" \o Format02d(m)

\* Mutant: the hour 24 passes.
ValidTime_Hour24(hour, minute) ==
    /\ 0 <= hour /\ hour <= 24
    /\ 0 <= minute /\ minute <= 59

ValidTime(hour, minute) ==
    /\ 0 <= hour /\ hour <= 23
    /\ 0 <= minute /\ minute <= 59

\* Mutant: the UPDATE has no WHERE clause.
UpdateRow_NoWhere(table, slug, hour, minute) ==
    [s \in DOMAIN table |-> [hour |-> hour, minute |-> minute]]

\* UPDATE timer_settings SET hour, minute WHERE slug: a missing row is no
\* error, the statement then changes nothing.
UpdateRow(table, slug, hour, minute) ==
    IF slug \in DOMAIN table
    THEN [table EXCEPT ![slug] = [hour |-> hour, minute |-> minute]]
    ELSE table

\* Mutant: the range is checked after the UPDATE was committed.
set_target_time_WriteFirst(authorization, hour, minute, db_ok) ==
    LET auth == get_current_slug(authorization, now)
        answer(status) ==
            [Response("set-time", "", status) EXCEPT
                !.presented = authorization.token,
                !.hour = hour, !.minute = minute]
    IN
    /\ IF auth.status # 200
       THEN /\ resp' = answer(auth.status)
            /\ UNCHANGED <<timer_settings, acked>>
       ELSE IF ~db_ok
       THEN /\ resp' = answer(500)
            /\ UNCHANGED <<timer_settings, acked>>
       ELSE IF ~ValidTime(hour, minute)
       THEN /\ timer_settings' = UpdateRow(timer_settings, auth.slug, hour, minute)
            /\ resp' = answer(400)
            /\ UNCHANGED acked
       ELSE /\ timer_settings' = UpdateRow(timer_settings, auth.slug, hour, minute)
            /\ resp' = [answer(200) EXCEPT
                          !.slug = auth.slug,
                          !.target_time = TargetTime(hour, minute)]
            /\ acked' = (auth.slug :> TargetTime(hour, minute)) @@ acked
    /\ printed' = 0
    /\ UNCHANGED <<now, config, rate_limit_state, failed_login_state, wallet,
                   history, threads, orphans>>

set_target_time(authorization, hour, minute, db_ok) ==
    LET auth == get_current_slug(authorization, now)
        answer(status) ==
            [Response("set-time", "", status) EXCEPT
                !.presented = authorization.token,
                !.hour = hour, !.minute = minute]
    IN
    /\ IF auth.status # 200
       THEN /\ resp' = answer(auth.status)
            /\ UNCHANGED <<timer_settings, acked>>
       ELSE IF ~ValidTime(hour, minute)
       THEN /\ resp' = answer(400)
            /\ UNCHANGED <<timer_settings, acked>>
       ELSE IF ~db_ok
       THEN /\ resp' = answer(500)
            /\ UNCHANGED <<timer_settings, acked>>
       ELSE /\ timer_settings' = UpdateRow(timer_settings, auth.slug, hour, minute)
            /\ resp' = [answer(200) EXCEPT
                          !.slug = auth.slug,
                          !.target_time = TargetTime(hour, minute)]
            /\ acked' = (auth.slug :> TargetTime(hour, minute)) @@ acked
    /\ printed' = 0
    /\ UNCHANGED <<now, config, rate_limit_state, failed_login_state, wallet,
                   history, threads, orphans>>

-----------------------------------------------------------------------------
(* GET /api/clock-out/{slug} *)

\* target_time - now, with now.replace(hour=h, minute=m, second=0)
SecondsLeft(h, m, t) == (h * 3600 + m * 60) - (t % 86400)

get_time_left_by_slug(slug, db_ok) ==
    LET answer(status) ==
            [Response("clock-out", "", status) EXCEPT !.slug = slug]
    IN
    /\ resp' = IF ~db_ok THEN answer(500)
               ELSE IF slug \notin DOMAIN timer_settings THEN answer(404)
               ELSE LET row == timer_settings[slug] IN
                    IF ~ValidTime(row.hour, row.minute) THEN answer(500)
                    ELSE [answer(200) EXCEPT
                            !.target_time = TargetTime(row.hour, row.minute),
                            !.seconds_left =
                                SecondsLeft(row.hour, row.minute, now)]
    /\ printed' = 0
    /\ UNCHANGED <<now, config, rate_limit_state, failed_login_state,
                   timer_settings, wallet, history, threads, orphans, acked>>

-----------------------------------------------------------------------------
(* The clock *)

Instants(bases) ==
    {i \in {Epoch0 + b + c : b \in bases, c \in (0 - MaxSkew)..MaxSkew} :
        i >= Epoch0}

\* The clock of the rate-limit scenarios: around a window's end, a block's
\* end and the end of the window after a block.
RateInstants ==
    Instants({0, WindowSec, BlockSec, BlockSec + WindowSec})

Tick(instants) ==
    /\ \E t \in instants : t > now /\ now' = t
    /\ resp' = NoResponse
    /\ printed' = 0
    /\ UNCHANGED <<config, rate_limit_state, failed_login_state, timer_settings,
                   wallet, history, threads, orphans, acked>>

-----------------------------------------------------------------------------
(* Startup *)

DefaultRow == [hour |-> DefaultHour, minute |-> DefaultMinute]

\* The secrets the process starts with: both non-empty, nothing else asked.
SecretInputs == Keys \cup {""}

PasswordConfigs ==
    {[se |-> "pw-se", min |-> "pw-min", tutoring |-> NoPw],
     [se |-> "pw-se", min |-> "pw-min", tutoring |-> ""]}

\* init_db either commits, and every slug has a row, or raises, the error is
\* printed and the table stays as it was left: rows may be missing.
InitialTables ==
    {[s \in D |-> DefaultRow] : D \in SUBSET Slugs}

EmptyMap == [k \in {} |-> 0]

\* What the local variable info of a worker refers to: nothing (None), the
\* entry the map holds, or the n-th entry the map held and holds no more.
NoInfo == -1
Live == 0

IdleThread ==
    [pc |-> "idle", now |-> 0, info |-> NoInfo, window_start |-> 0, count |-> 0]

Init ==
    /\ now = Epoch0
    /\ JWT_SECRET \in SecretInputs /\ JWT_SECRET # ""
    /\ REFRESH_SECRET \in SecretInputs /\ REFRESH_SECRET # ""
    /\ ADMIN_PASSWORD \in PasswordConfigs
    /\ timer_settings \in InitialTables
    /\ rate_limit_state = EmptyMap
    /\ failed_login_state = EmptyMap
    /\ wallet = [access |-> NoToken, access_at |-> 0, refresh |-> NoToken]
    /\ acked = EmptyMap
    /\ history = EmptyMap
    /\ resp = NoResponse
    /\ printed = 0
    /\ threads = [i \in 1..MaxThreads |-> IdleThread]
    /\ orphans = EmptyMap

\* The usual deployment: distinct secrets, init_db succeeded.
UsualConfig ==
    /\ JWT_SECRET = "k1" /\ REFRESH_SECRET = "k2"
    /\ ADMIN_PASSWORD["tutoring"] = NoPw
    /\ DOMAIN timer_settings = Slugs

-----------------------------------------------------------------------------
(* SpecRate: one caller against one of the two rate-limited endpoints, the *)
(* one of its first request, while the clock runs over windows and block   *)
(* durations.                                                              *)

RateIp == "10.0.0.1"

InitRate == Init /\ UsualConfig

LoginProbe ==
    /\ StateKey(RateIp, "admin_refresh") \notin DOMAIN rate_limit_state
    /\ \E slug \in {"other"} : admin_login(RateIp, slug, "")

RefreshProbe ==
    /\ StateKey(RateIp, "admin_login") \notin DOMAIN rate_limit_state
    /\ \E tok \in {Garbage} : refresh_access_token(RateIp, tok)

TickRate == Tick(RateInstants)

NextRate == TickRate \/ LoginProbe \/ RefreshProbe

SpecRate == InitRate /\ [][NextRate]_vars

\* A caller who keeps calling while the clock runs.
SpecRateFair ==
    /\ SpecRate
    /\ WF_vars(TickRate) /\ WF_vars(LoginProbe) /\ WF_vars(RefreshProbe)

-----------------------------------------------------------------------------------------------------------------------------------------------------
(* Spec: one client and its tokens.  It logs in, refreshes and sets the    *)
(* time, presenting the tokens it received and tokens made elsewhere,      *)
(* while the clock runs over the lifetime of an access token.  The client  *)
(* stays below the rate limits: at most MaxBurst requests per window and   *)
(* endpoint.                                                               *)

ApiInstants ==
    {Epoch0} \cup {Epoch0 + AccessTtl + c : c \in (0 - MaxSkew)..MaxSkew}

FarFuture == Epoch0 + 2 * RefreshTtl

\* Tokens that were not handed out in this run: one signed with a key nobody
\* here owns, and tokens signed with the secrets for a slug outside the set
\* (expired or not) and for another tenant.
MadeElsewhere ==
    {[key |-> ForeignKey, slug |-> "min", exp |-> FarFuture],
     [key |-> JWT_SECRET, slug |-> "se", exp |-> FarFuture]} \cup
    [key : {JWT_SECRET, REFRESH_SECRET}, slug : {"other"},
     exp : {Epoch0, FarFuture}]

PresentedTokens == {wallet.access, wallet.refresh, Garbage} \cup MadeElsewhere

Headers ==
    {NoHeader, [scheme |-> "Basic", token |-> wallet.access]} \cup
    {Bearer(tok) : tok \in PresentedTokens}

Calm(ip, key) ==
    LET k == StateKey(ip, key) IN
    IF k \notin DOMAIN rate_limit_state THEN TRUE
    ELSE IF WindowExpired(now, rate_limit_state[k].window_start, WindowSec)
    THEN TRUE
    ELSE rate_limit_state[k].count < MaxBurst

InitApi ==
    /\ Init
    /\ JWT_SECRET = "k1"
    /\ ADMIN_PASSWORD["tutoring"] = NoPw
    /\ DOMAIN timer_settings = Slugs

Login ==
    /\ Calm(RateIp, "admin_login")
    /\ \E slug \in {"min", "other"} : admin_login(RateIp, slug, "pw-min")

Refresh ==
    /\ Calm(RateIp, "admin_refresh")
    /\ \E tok \in PresentedTokens : refresh_access_token(RateIp, tok)

SetTime == \E h \in Headers : set_target_time(h, 9, 30, TRUE)

TickApi == Tick(ApiInstants)

Next == TickApi \/ Login \/ Refresh \/ SetTime

Spec == InitApi /\ [][Next]_vars

-----------------------------------------------------------------------------
(* SpecTime: the owner of "min" logs in, sets the time and reads it back,  *)
(* next to a holder of a token for "se" and callers without a valid token, *)
(* whether init_db had succeeded at startup or not and whether the         *)
(* database answers or not.                                                *)

TimeInputs ==
    {<<9, 30>>, <<23, 59>>, <<24, 0>>, <<0, 60>>, <<-1, 0>>, <<0, -1>>}

TimeHeaders ==
    {NoHeader, Bearer(Garbage), Bearer(wallet.access), Bearer(wallet.refresh),
     Bearer([key |-> JWT_SECRET, slug |-> "se", exp |-> FarFuture])}

InitTime ==
    /\ Init
    /\ JWT_SECRET = "k1"
    /\ ADMIN_PASSWORD["tutoring"] = NoPw
    /\ DOMAIN timer_settings \in {Slugs, Slugs \ {"min"}}

LoginMin ==
    /\ Calm(RateIp, "admin_login")
    /\ admin_login(RateIp, "min", "pw-min")

SetTimeAny ==
    \E h \in TimeHeaders, hm \in TimeInputs, db_ok \in BOOLEAN :
        set_target_time(h, hm[1], hm[2], db_ok)

ClockOut ==
    \E slug \in Slugs \cup {"other"}, db_ok \in BOOLEAN :
        get_time_left_by_slug(slug, db_ok)

NextTime == TickApi \/ LoginMin \/ SetTimeAny \/ ClockOut

SpecTime == InitTime /\ [][NextTime]_vars

-----------------------------------------------------------------------------
(* SpecLogin: a caller who logs in to "se" and to a slug outside the set,  *)
(* with the right and with a wrong password, as often as it likes, next to *)
(* a second caller who mistypes the password of "se" now and then, while   *)
(* the clock passes the end of a window.                                   *)

OtherIp == "10.0.0.2"

LoginInstants == {Epoch0, Epoch0 + WindowSec + MaxSkew}

InitLogin == Init /\ UsualConfig

Attempt ==
    \E slug \in {"se", "other"}, password \in {"pw-se", "wrong"} :
        admin_login(RateIp, slug, password)

OtherAttempt ==
    /\ Calm(OtherIp, "admin_login")
    /\ admin_login(OtherIp, "se", "wrong")

TickLogin == Tick(LoginInstants)

NextLogin == TickLogin \/ Attempt \/ OtherAttempt

SpecLogin == InitLogin /\ [][NextLogin]_vars

-----------------------------------------------------------------------------
(* SpecUnconfigured: ADMIN_PASSWORD_TUTORING is unset or set to the empty  *)
(* string, and a caller tries to log in to "tutoring" as often as it likes. *)

InitUnconfigured ==
    /\ Init
    /\ JWT_SECRET = "k1" /\ REFRESH_SECRET = "k2"
    /\ DOMAIN timer_settings = Slugs

TutoringAttempt ==
    \E password \in {"", "wrong", "pw-se"} :
        admin_login(RateIp, "tutoring", password)

NextUnconfigured == TickLogin \/ TutoringAttempt

SpecUnconfigured == InitUnconfigured /\ [][NextUnconfigured]_vars

-----------------------------------------------------------------------------
(* SpecBadRequest: the owner of "min" logs in, now and then with a wrong   *)
(* password or a slug outside the set, and asks for times inside and       *)
(* outside the range with the access token it holds.                       *)

InitBadRequest == Init /\ UsualConfig

LoginOrTypo ==
    /\ Calm(RateIp, "admin_login")
    /\ \E slug \in {"min", "other"}, password \in {"pw-min", "wrong"} :
         admin_login(RateIp, slug, password)

SetTimeHeld ==
    \E hm \in TimeInputs :
        set_target_time(Bearer(wallet.access), hm[1], hm[2], TRUE)

NextBadRequest == TickLogin \/ LoginOrTypo \/ SetTimeHeld

SpecBadRequest == InitBadRequest /\ [][NextBadRequest]_vars

-----------------------------------------------------------------------------
(* SpecRefresh: the owner of "se" logs in once and then refreshes as often *)
(* as it likes, with the refresh token of the login and with tokens the    *)
(* endpoint must refuse, while the clock runs to the end of the refresh    *)
(* token's seven days.                                                     *)

RefreshInstants ==
    {Epoch0} \cup {Epoch0 + RefreshTtl + c : c \in (0 - MaxSkew)..MaxSkew}

InitRefresh == Init /\ UsualConfig

LoginOnce ==
    /\ wallet.refresh = NoToken
    /\ admin_login(RateIp, "se", "pw-se")

RefusedTokens ==
    {wallet.access, Garbage,
     [key |-> REFRESH_SECRET, slug |-> "other", exp |-> FarFuture]}

RefreshAny ==
    /\ wallet.refresh # NoToken
    /\ \E tok \in {wallet.refresh} \cup RefusedTokens :
         refresh_access_token(RateIp, tok)

TickRefresh == Tick(RefreshInstants)

NextRefresh == TickRefresh \/ LoginOnce \/ RefreshAny

SpecRefresh == InitRefresh /\ [][NextRefresh]_vars

-----------------------------------------------------------------------------
(* SpecShared: two callers and both rate-limited endpoints.  One entry at  *)
(* a time is driven to its limit and into its block while the requests on  *)
(* the other entries stay few.                                             *)

SharedCalls ==
    {<<RateIp, "admin_login">>, <<RateIp, "admin_refresh">>,
     <<OtherIp, "admin_login">>}

\* No entry but that of (ip, key) has counted more than MaxBurst requests.
OthersCalm(ip, key) ==
    \A k \in DOMAIN rate_limit_state \ {StateKey(ip, key)} :
        rate_limit_state[k].count <= MaxBurst

MayCall(ip, key) ==
    /\ <<ip, key>> \in SharedCalls
    /\ IF Calm(ip, key) THEN TRUE ELSE OthersCalm(ip, key)

LoginShared ==
    \E ip \in Ips :
        MayCall(ip, "admin_login") /\ admin_login(ip, "other", "")

RefreshShared ==
    \E ip \in Ips :
        MayCall(ip, "admin_refresh") /\ refresh_access_token(ip, Garbage)

NextShared == TickLogin \/ LoginShared \/ RefreshShared

InitShared == Init /\ UsualConfig

SpecShared == InitShared /\ [][NextShared]_vars

-----------------------------------------------------------------------------
(* SpecConc: the login handler run by the workers of the thread pool, as   *)
(* FastAPI runs a handler written with def.  The requests come from one    *)
(* caller and name the slug "other", so that after check_rate_limit the    *)
(* handler only answers.  check_rate_limit takes no lock: a worker can be  *)
(* preempted between any two accesses to _rate_limit_state or to an entry. *)
(* A step is one such access with the local computation that follows it.   *)

ConcKey == StateKey(RateIp, "admin_login")

ConcInstants == {Epoch0, Epoch0 + WindowSec + MaxSkew}

\* The entry object the local variable info of worker i refers to.
Obj(i) ==
    IF threads[i].info = Live THEN rate_limit_state[ConcKey]
    ELSE orphans[threads[i].info]

\* Worker i assigns to a key of the entry object it holds.
WriteObj(i, entry) ==
    IF threads[i].info = Live
    THEN /\ rate_limit_state' = [rate_limit_state EXCEPT ![ConcKey] = entry]
         /\ UNCHANGED orphans
    ELSE /\ orphans' = [orphans EXCEPT ![threads[i].info] = entry]
         /\ UNCHANGED rate_limit_state

\* check_rate_limit returns (the handler answers 400) or raises 429.
Return(i, status, fresh, blocks) ==
    /\ threads' = [threads EXCEPT ![i] = IdleThread]
    /\ resp' = LoginAnswer(RateIp, "other", status)
    /\ printed' = 0
    /\ history' = Note(ConcKey, threads[i].now, fresh, status # 429, blocks)

Goto(i, pc) ==
    /\ threads' = [threads EXCEPT ![i].pc = pc]
    /\ UNCHANGED <<resp, printed, history>>

ConcFrame == UNCHANGED <<now, config, failed_login_state, timer_settings,
                         wallet, acked>>

\* line 94: a request reaches worker i, which reads the clock.  The caller
\* sends no more once MaxBurst results beyond the limit were allowed.
L94(i) ==
    /\ threads[i].pc = "idle"
    /\ ConcKey \in DOMAIN history =>
         history[ConcKey].allowed < LoginLimit + MaxBurst
    /\ threads' = [threads EXCEPT ![i].pc = "L96", ![i].now = now]
    /\ UNCHANGED <<rate_limit_state, orphans, resp, printed, history>>
    /\ ConcFrame

\* line 96: info = _rate_limit_state.get(state_key)
L96(i) ==
    /\ threads[i].pc = "L96"
    /\ threads' = [threads EXCEPT
         ![i].pc = IF ConcKey \in DOMAIN rate_limit_state
                   THEN "L107" ELSE "L99",
         ![i].info = IF ConcKey \in DOMAIN rate_limit_state
                     THEN Live ELSE NoInfo]
    /\ UNCHANGED <<rate_limit_state, orphans, resp, printed, history>>
    /\ ConcFrame

\* lines 98-104: info is None, a new entry is stored under the key.  An
\* entry stored in between is dropped from the map; the workers that hold
\* it keep it.
L99(i) ==
    /\ threads[i].pc = "L99"
    /\ rate_limit_state' =
         (ConcKey :> NewEntry(threads[i].now)) @@ rate_limit_state
    /\ IF ConcKey \in DOMAIN rate_limit_state
       THEN LET id == Cardinality(DOMAIN orphans) + 1 IN
            /\ orphans' = (id :> rate_limit_state[ConcKey]) @@ orphans
            /\ threads' =
                 [j \in DOMAIN threads |->
                    IF j = i THEN IdleThread
                    ELSE IF threads[j].info = Live
                    THEN [threads[j] EXCEPT !.info = id]
                    ELSE threads[j]]
       ELSE /\ UNCHANGED orphans
            /\ threads' = [threads EXCEPT ![i] = IdleThread]
    /\ resp' = LoginAnswer(RateIp, "other", 400)
    /\ printed' = 0
    /\ history' = Note(ConcKey, threads[i].now, TRUE, TRUE, FALSE)
    /\ ConcFrame

\* line 107: if info.get("blocked_until", 0.0) > now: raise 429
L107(i) ==
    /\ threads[i].pc = "L107"
    /\ IF IsBlocked(Obj(i), threads[i].now)
       THEN Return(i, 429, FALSE, FALSE)
       ELSE Goto(i, "L110")
    /\ UNCHANGED <<rate_limit_state, orphans>>
    /\ ConcFrame

\* line 110: window_start = info.get("window_start", now)
L110(i) ==
    /\ threads[i].pc = "L110"
    /\ threads' = [threads EXCEPT ![i].pc = "L111",
                                  ![i].window_start = Obj(i).window_start]
    /\ UNCHANGED <<rate_limit_state, orphans, resp, printed, history>>
    /\ ConcFrame

\* line 111: count = info.get("count", 0), and the test of line 114
L111(i) ==
    /\ threads[i].pc = "L111"
    /\ threads' = [threads EXCEPT
         ![i].pc = IF WindowExpired(threads[i].now, threads[i].window_start,
                                    WindowSec)
                   THEN "L115" ELSE "L122",
         ![i].count = Obj(i).count]
    /\ UNCHANGED <<rate_limit_state, orphans, resp, printed, history>>
    /\ ConcFrame

\* line 115: info["window_start"] = now
L115(i) ==
    /\ threads[i].pc = "L115"
    /\ WriteObj(i, [Obj(i) EXCEPT !.window_start = threads[i].now])
    /\ Goto(i, "L116")
    /\ ConcFrame

\* line 116: info["count"] = 1
L116(i) ==
    /\ threads[i].pc = "L116"
    /\ WriteObj(i, [Obj(i) EXCEPT !.count = 1])
    /\ Goto(i, "L117")
    /\ ConcFrame

\* lines 117-118: info["blocked_until"] = 0.0; return
L117(i) ==
    /\ threads[i].pc = "L117"
    /\ WriteObj(i, [Obj(i) EXCEPT !.blocked_until = 0])
    /\ Return(i, 400, TRUE, FALSE)
    /\ ConcFrame

\* lines 121-123: count += 1; info["count"] = count; the test of line 123
L122(i) ==
    /\ threads[i].pc = "L122"
    /\ WriteObj(i, [Obj(i) EXCEPT !.count = threads[i].count + 1])
    /\ IF OverLimit(threads[i].count + 1, LoginLimit)
       THEN Goto(i, "L124")
       ELSE Return(i, 400, FALSE, FALSE)
    /\ ConcFrame

\* lines 124-125: info["blocked_until"] = now + block_sec; raise 429
L124(i) ==
    /\ threads[i].pc = "L124"
    /\ WriteObj(i, [Obj(i) EXCEPT !.blocked_until = threads[i].now + BlockSec])
    /\ Return(i, 429, FALSE, TRUE)
    /\ ConcFrame

Worker(i) ==
    \/ L94(i) \/ L96(i) \/ L99(i) \/ L107(i) \/ L110(i) \/ L111(i)
    \/ L115(i) \/ L116(i) \/ L117(i) \/ L122(i) \/ L124(i)

TickConc == Tick(ConcInstants)

NextConc == TickConc \/ \E i \in 1..MaxThreads : Worker(i)

InitConc == Init /\ UsualConfig

SpecConc == InitConc /\ [][NextConc]_vars

-----------------------------------------------------------------------------
(* The inputs the properties range over *)

LoginSlugs == Slugs \cup {"other"}
Passwords == {"", "pw-se", "pw-min", "wrong"}
LimitedKeys == {"admin_login", "admin_refresh"}

KeyLimit(key) == IF key = "admin_login" THEN LoginLimit ELSE RefreshLimit

\* A step that is a request of ip to the endpoint limited under key.
LoginCall(ip) == resp'.op = "login" /\ resp'.ip = ip

RefreshCall(ip) == resp'.op = "refresh" /\ resp'.ip = ip

LimitedCall(ip, key) ==
    IF key = "admin_login" THEN LoginCall(ip) ELSE RefreshCall(ip)

HasEntry(k) == k \in DOMAIN rate_limit_state

InWindow(info) == now - info.window_start <= WindowSec

-----------------------------------------------------------------------------
\* C1: a login call on a missing entry is Allowed and opens a window at now;
\* a login call made within 60 s of the window's first call is Allowed and
\* counted while fewer than 10 calls were made before it, and the call after
\* 10 calls (the 11th) is answered 429 and sets blocked_until = now + 3600.
\* No window of any entry gets more than its limit of Allowed results.
C1_Step ==
    \A ip \in Ips :
      LoginCall(ip) =>
        LET k == StateKey(ip, "admin_login") IN
        IF ~HasEntry(k)
        THEN resp'.status # 429 /\ rate_limit_state'[k] = NewEntry(now)
        ELSE
          LET info == rate_limit_state[k] IN
          /\ (InWindow(info) /\ info.count < LoginLimit) =>
                /\ resp'.status # 429
                /\ rate_limit_state'[k] = [info EXCEPT !.count = @ + 1]
          /\ (InWindow(info) /\ info.count = LoginLimit) =>
                /\ resp'.status = 429
                /\ rate_limit_state'[k].blocked_until = now + BlockSec

C1_Bound ==
    \A ip \in Ips, key \in LimitedKeys :
      LET k == StateKey(ip, key) IN
      k \in DOMAIN history => history[k].allowed <= KeyLimit(key)

C1_TenAllowedEleventhBlocked == [][C1_Step]_vars /\ []C1_Bound

\* The 11th login call of a window, made exactly 60 s after the first, was
\* just answered 429, after 10 Allowed results.
C1_Witness ==
    LET k == StateKey(RateIp, "admin_login") IN
    /\ HasEntry(k)
    /\ resp.status = 429
    /\ rate_limit_state[k].count = LoginLimit + 1
    /\ rate_limit_state[k].blocked_until = now + BlockSec
    /\ now = rate_limit_state[k].window_start + WindowSec
    /\ history[k].allowed = LoginLimit

-----------------------------------------------------------------------------
\* C2: while an entry carries the block set at time T, a call of its
\* endpoint made at now >= T + 3600 is Allowed and leaves the entry a fresh
\* window (window_start = now, count = 1, blocked_until = 0), for the login
\* and the refresh parameters alike; and a blocked caller who keeps calling
\* is admitted once the clock gets that far.
C2_Step ==
    \A ip \in Ips, key \in LimitedKeys :
      LET k == StateKey(ip, key) IN
      (/\ LimitedCall(ip, key)
       /\ HasEntry(k)
       /\ rate_limit_state[k].blocked_until # 0
       /\ now >= history[k].blocked_at + BlockSec)
      => /\ resp'.status # 429
         /\ rate_limit_state'[k] = NewEntry(now)

LastRateInstant == Epoch0 + BlockSec + WindowSec + MaxSkew

C2_Blocked(k) ==
    /\ HasEntry(k)
    /\ IsBlocked(rate_limit_state[k], now)
    /\ history[k].blocked_at + BlockSec <= LastRateInstant

C2_Admitted(k) == HasEntry(k) /\ rate_limit_state[k].blocked_until = 0

C2_AllowedAgainAfterBlock ==
    /\ [][C2_Step]_vars
    /\ \A key \in LimitedKeys :
         C2_Blocked(StateKey(RateIp, key)) ~> C2_Admitted(StateKey(RateIp, key))

\* A refresh caller blocked at T was just admitted at exactly T + 3600.
C2_Witness ==
    LET k == StateKey(RateIp, "admin_refresh") IN
    /\ HasEntry(k)
    /\ history[k].blocked_at # 0
    /\ now = history[k].blocked_at + BlockSec
    /\ rate_limit_state[k] = NewEntry(now)
    /\ resp.status = 401

-----------------------------------------------------------------------------
\* C3: while blocked_until of an entry is greater than the clock, every call
\* of its endpoint is answered 429 and leaves the whole rate-limit map as it
\* was: no count, window_start or blocked_until changes, whether the window
\* of the entry has run out or not.
C3_Step ==
    \A ip \in Ips, key \in LimitedKeys :
      LET k == StateKey(ip, key) IN
      (/\ LimitedCall(ip, key)
       /\ HasEntry(k)
       /\ rate_limit_state[k].blocked_until > now)
      => /\ resp'.status = 429
         /\ rate_limit_state' = rate_limit_state

C3_BlockedCallChangesNothing == [][C3_Step]_vars

\* A login call was just answered 429 one second before the block ends,
\* long after the window of the entry ran out; no refresh was ever made.
C3_Witness ==
    LET k == StateKey(RateIp, "admin_login") IN
    /\ HasEntry(k)
    /\ ~HasEntry(StateKey(RateIp, "admin_refresh"))
    /\ resp.status = 429
    /\ rate_limit_state[k].blocked_until = now + 1
    /\ now - rate_limit_state[k].window_start > WindowSec

-----------------------------------------------------------------------------
\* A request that got past authentication (and the rate limit).
Accepted(r) == r.status \notin {401, 403, 429}

Issues(r) == r.access_token # NoToken \/ r.refresh_token # NoToken

\* C4: no set-time request carrying a token signed with the refresh secret
\* is accepted, and no refresh request carrying a token signed with the
\* access secret is accepted, whatever non-empty secrets the process was
\* started with.
C4_Step ==
    /\ (resp'.op = "set-time" /\ resp'.presented.key = REFRESH_SECRET)
          => ~Accepted(resp')
    /\ (resp'.op = "refresh" /\ resp'.presented.key = JWT_SECRET)
          => ~Accepted(resp')

C4_SecretsNeverCross == [][C4_Step]_vars

-----------------------------------------------------------------------------
\* C6: a login that names a slug outside {se, min, tutoring} is rejected and
\* returns no token; a refresh with a correctly signed, unexpired refresh
\* token whose slug is outside the set is rejected and returns no token; a
\* set-time with a correctly signed, unexpired access token whose slug is
\* outside the set is rejected and leaves the table as it was; and no
\* response ever carries a token for a slug outside the set.
Outsider(tok, secret) ==
    /\ tok.key = secret
    /\ ~Expired(tok.exp, now)
    /\ tok.slug \notin Slugs

C6_Step ==
    /\ (resp'.op = "login" /\ resp'.slug \notin Slugs)
          => resp'.status \in {400, 429} /\ ~Issues(resp')
    /\ (resp'.op = "refresh" /\ Outsider(resp'.presented, REFRESH_SECRET))
          => resp'.status \in {401, 429} /\ ~Issues(resp')
    /\ (resp'.op = "set-time" /\ Outsider(resp'.presented, JWT_SECRET))
          => resp'.status = 403 /\ timer_settings' = timer_settings
    /\ resp'.access_token # NoToken => resp'.access_token.slug \in Slugs
    /\ resp'.refresh_token # NoToken => resp'.refresh_token.slug \in Slugs

C6_UnknownTenantRejected == [][C6_Step]_vars

\* set-time just answered 403 to an unexpired token signed with the access
\* secret for the slug "other".
C6_Witness ==
    /\ resp.op = "set-time"
    /\ resp.status = 403
    /\ Outsider(resp.presented, JWT_SECRET)
    /\ resp.presented.slug = "other"

-----------------------------------------------------------------------------
\* C10: every access token a response carries expires 15 minutes after the
\* response; a set-time request carrying the access token the client got at
\* time T is accepted only at times up to T + 900, and at any later time it
\* is answered 401 and the table is left as it was.
C10_Step ==
    /\ resp'.access_token # NoToken
          => resp'.access_token.exp = now + AccessTtl
    /\ (/\ resp'.op = "set-time"
        /\ wallet.access # NoToken
        /\ resp'.presented = wallet.access)
          => /\ Accepted(resp') => now <= wallet.access_at + AccessTtl
             /\ now > wallet.access_at + AccessTtl
                  => resp'.status = 401 /\ timer_settings' = timer_settings

C10_AccessTokenLifetime == [][C10_Step]_vars

\* The access token the client got at startup was just refused by set-time
\* with 401, one second after its 15 minutes.
C10_Witness ==
    /\ resp.op = "set-time"
    /\ resp.status = 401
    /\ wallet.access # NoToken
    /\ resp.presented = wallet.access
    /\ wallet.access_at = Epoch0
    /\ now = Epoch0 + AccessTtl + 1

-----------------------------------------------------------------------------
\* C5: the row of tenant t changes only in a set-time request that is
\* answered 200 and carries a token that verifies under the access secret,
\* is unexpired and has the slug claim t; every other row stays as it was,
\* and no row is ever added or removed.
RowChanged(t) ==
    IF t \in DOMAIN timer_settings
    THEN timer_settings'[t] # timer_settings[t]
    ELSE FALSE

C5_Step ==
    /\ DOMAIN timer_settings' = DOMAIN timer_settings
    /\ \A t \in Slugs :
         RowChanged(t) =>
           /\ resp'.op = "set-time"
           /\ resp'.status = 200
           /\ LET payload == Decode(resp'.presented, JWT_SECRET, now) IN
              payload.result = "ok" /\ payload.slug = t

C5_OnlyAuthorizedTenantWrites == [][C5_Step]_vars

\* set-time just changed the row of "se" for the holder of a token for
\* "se", after the owner of "min" had set another time: each row holds what
\* its own tenant asked for.
C5_Witness ==
    /\ resp.op = "set-time"
    /\ resp.status = 200
    /\ resp.presented.slug = "se"
    /\ DOMAIN timer_settings = Slugs
    /\ timer_settings["se"] = [hour |-> 9, minute |-> 30]
    /\ timer_settings["min"] = [hour |-> 23, minute |-> 59]
    /\ timer_settings["tutoring"] = DefaultRow

-----------------------------------------------------------------------------
\* C8: once set-time has answered 200 to tenant t for (h, m), every read of
\* /api/clock-out/t that reaches the database, until the next such set-time
\* for t, is answered 200 with target_time = h:m zero-padded.
C8_Step ==
    (/\ resp'.op = "clock-out"
     /\ resp'.status # 500
     /\ resp'.slug \in DOMAIN acked)
    => /\ resp'.status = 200
       /\ resp'.target_time = acked[resp'.slug]

C8_ReadReflectsSetTime == [][C8_Step]_vars

-----------------------------------------------------------------------------
\* C9: a set-time request that carries a token accepted by the access check
\* and asks for an hour outside 0..23 or a minute outside 0..59 is answered
\* 400 and leaves every row as it was.
C9_Step ==
    (/\ resp'.op = "set-time"
     /\ get_current_slug(Bearer(resp'.presented), now).status = 200
     /\ \/ resp'.hour < 0 \/ resp'.hour > 23
        \/ resp'.minute < 0 \/ resp'.minute > 59)
    => /\ resp'.status = 400
       /\ timer_settings' = timer_settings

C9_OutOfRangeRejected == [][C9_Step]_vars

\* The owner of "min" just asked for hour 24 with the access token of the
\* login and got 400; the row still holds the default.
C9_Witness ==
    /\ resp.op = "set-time"
    /\ resp.status = 400
    /\ resp.hour = 24
    /\ wallet.access # NoToken
    /\ resp.presented = wallet.access
    /\ "min" \in DOMAIN timer_settings
    /\ timer_settings["min"] = DefaultRow

-----------------------------------------------------------------------------
\* C7: under every interleaving of the workers, the Allowed results of one
\* window of an entry never exceed the limit, and every Allowed result is
\* counted: count is at least the number of Allowed results of the window.
C7_AdmissionIsAtomic ==
    (HasEntry(ConcKey) /\ ConcKey \in DOMAIN history) =>
        /\ history[ConcKey].allowed <= LoginLimit
        /\ history[ConcKey].allowed <= rate_limit_state[ConcKey].count

-----------------------------------------------------------------------------
\* C11: a set-time request whose token is signed with the access secret and
\* has an exp claim in the past is answered 401, never 403, whatever slug
\* claim the token carries (a slug outside the closed set included), and
\* the table is left as it was.
C11_Step ==
    (/\ resp'.op = "set-time"
     /\ resp'.presented.key = JWT_SECRET
     /\ resp'.presented.exp < now)
    => /\ resp'.status = 401
       /\ timer_settings' = timer_settings

C11_ExpiredIsUnauthorized == [][C11_Step]_vars

\* set-time just answered 401 to an expired token, signed with the access
\* secret, for the slug "other".
C11_Witness ==
    /\ resp.op = "set-time"
    /\ resp.status = 401
    /\ resp.presented.key = JWT_SECRET
    /\ resp.presented.slug = "other"
    /\ resp.presented.exp < now

-----------------------------------------------------------------------------
\* The key of the failed-login counter the login just answered belongs to.
Pair(r) == r.ip \o ":" \o r.slug

\* The value a counter shows: a pair never counted shows 0.
Failures(failed_logins, k) ==
    IF k \in DOMAIN failed_logins THEN failed_logins[k] ELSE 0

\* The counters of all pairs but k are as they were.
OthersKept(k) ==
    \A k2 \in (DOMAIN failed_login_state \cup DOMAIN failed_login_state') \ {k} :
        /\ k2 \in DOMAIN failed_login_state
        /\ k2 \in DOMAIN failed_login_state'
        /\ failed_login_state'[k2] = failed_login_state[k2]

\* The login just answered named a tenant and supplied its configured,
\* non-empty password.
RightPassword(r) ==
    /\ r.slug \in Slugs
    /\ ADMIN_PASSWORD[r.slug] \notin {NoPw, ""}
    /\ r.password = ADMIN_PASSWORD[r.slug]

\* C12: an admitted login with the correct password for tenant t from
\* caller c is answered 200 and sets the counter of (c, t) to 0, whatever
\* it was before; the counter of every other pair stays as it was.
C12_Step ==
    (/\ resp'.op = "login"
     /\ resp'.status # 429
     /\ RightPassword(resp'))
    => /\ resp'.status = 200
       /\ Pair(resp') \in DOMAIN failed_login_state'
       /\ failed_login_state'[Pair(resp')] = 0
       /\ OthersKept(Pair(resp'))

C12_SuccessResetsCounter == [][C12_Step]_vars

\* The first caller just logged in to "se" with its seventh request of a
\* window: its counter is 0 and the counter of the second caller still
\* shows that caller's two failures.
C12_Witness ==
    /\ resp.op = "login" /\ resp.ip = RateIp /\ resp.slug = "se"
    /\ resp.status = 200
    /\ printed = 0
    /\ StateKey(RateIp, "admin_login") \in DOMAIN rate_limit_state
    /\ rate_limit_state[StateKey(RateIp, "admin_login")].count = 7
    /\ Failures(failed_login_state, StateKey(RateIp, "se")) = 0
    /\ Failures(failed_login_state, StateKey(OtherIp, "se")) = 2

-----------------------------------------------------------------------------
\* The rate-limit entry of the caller of the login just answered.
LoginEntry(r) == r.ip \o ":admin_login"

\* C13: the failed-attempt counter never influences admission.  A login
\* with a valid slug and a wrong password, from a caller with no entry or
\* with an unblocked entry in its window, is answered 403 as long as fewer
\* than 10 requests were counted in the window and 429 once 10 were: the
\* block comes with the 11th attempt and not sooner, whatever the counter
\* of failures shows.
C13_Step ==
    (/\ resp'.op = "login"
     /\ resp'.slug \in Slugs
     /\ ~RightPassword(resp'))
    => LET k == LoginEntry(resp') IN
       IF k \notin DOMAIN rate_limit_state THEN resp'.status = 403
       ELSE IF rate_limit_state[k].blocked_until = 0
                 /\ InWindow(rate_limit_state[k])
       THEN /\ rate_limit_state[k].count < 10 => resp'.status = 403
            /\ rate_limit_state[k].count >= 10 => resp'.status = 429
       ELSE TRUE

C13_CounterNeverBlocks == [][C13_Step]_vars

\* The eleventh request of the first window was just answered 429, after
\* ten wrong passwords for "se" that were each let through: the counter of
\* failures shows 10, twice the warning threshold.
C13_Witness ==
    /\ resp.op = "login" /\ resp.ip = RateIp /\ resp.slug = "se"
    /\ resp.password = "wrong"
    /\ resp.status = 429
    /\ now = Epoch0
    /\ StateKey(RateIp, "admin_login") \in DOMAIN rate_limit_state
    /\ rate_limit_state[StateKey(RateIp, "admin_login")].count = 11
    /\ Failures(failed_login_state, StateKey(RateIp, "se")) = 10

-----------------------------------------------------------------------------
\* C14: a login that names a tenant whose admin password is unset or empty
\* is rejected (403, or 429 by the rate limit) and returns no token,
\* whatever password it supplies, the empty string included.
C14_Step ==
    (/\ resp'.op = "login"
     /\ resp'.slug \in Slugs
     /\ ADMIN_PASSWORD[resp'.slug] \in {NoPw, ""})
    => /\ resp'.status \in {403, 429}
       /\ ~Issues(resp')
       /\ wallet' = wallet

C14_UnconfiguredNeverLogsIn == [][C14_Step]_vars

\* ADMIN_PASSWORD_TUTORING is the empty string, and a login to "tutoring"
\* with the empty password was just let through by the rate limit and
\* answered 403.
C14_Witness ==
    /\ ADMIN_PASSWORD["tutoring"] = ""
    /\ resp.op = "login" /\ resp.slug = "tutoring"
    /\ resp.password = ""
    /\ resp.status = 403
    /\ ~Issues(resp)

-----------------------------------------------------------------------------
\* C15 as stated: a login answered 400 for an invalid slug leaves the
\* rate-limit entries, the failed-login counters and the timer settings as
\* they were before the request, and so does a set-time answered 400 for
\* an out-of-range time.
C15_Original_Step ==
    (resp'.status = 400 /\ resp'.op \in {"login", "set-time"})
    => /\ rate_limit_state' = rate_limit_state
       /\ failed_login_state' = failed_login_state
       /\ timer_settings' = timer_settings

C15_BadRequestChangesNothing == [][C15_Original_Step]_vars

\* The request was counted in the caller's login entry and nothing else
\* happened to the rate-limit entries: the entry is new or starts a new
\* window with count 1, or its count grew by one within its window.
CountedOnce(k) ==
    /\ k \in DOMAIN rate_limit_state'
    /\ \A k2 \in (DOMAIN rate_limit_state \cup DOMAIN rate_limit_state') \ {k} :
          /\ k2 \in DOMAIN rate_limit_state
          /\ k2 \in DOMAIN rate_limit_state'
          /\ rate_limit_state'[k2] = rate_limit_state[k2]
    /\ IF k \in DOMAIN rate_limit_state
       THEN \/ rate_limit_state'[k] =
                 [rate_limit_state[k] EXCEPT !.count = @ + 1]
            \/ /\ ~InWindow(rate_limit_state[k])
               /\ rate_limit_state'[k] =
                    [window_start |-> now, count |-> 1, blocked_until |-> 0]
       ELSE rate_limit_state'[k] =
              [window_start |-> now, count |-> 1, blocked_until |-> 0]

\* C15 amended: a login answered 400 for an invalid slug leaves the
\* failed-login counters and the timer settings as they were and changes
\* the rate-limit entries only by counting the request in the caller's
\* login entry; a set-time answered 400 for an out-of-range time leaves
\* the rate-limit entries, the failed-login counters and the timer settings
\* as they were.
C15_Step ==
    /\ (resp'.op = "login" /\ resp'.status = 400)
          => /\ failed_login_state' = failed_login_state
             /\ timer_settings' = timer_settings
             /\ CountedOnce(LoginEntry(resp'))
    /\ (resp'.op = "set-time" /\ resp'.status = 400)
          => /\ rate_limit_state' = rate_limit_state
             /\ failed_login_state' = failed_login_state
             /\ timer_settings' = timer_settings

C15_BadRequestCountsOnly == [][C15_Step]_vars

\* A login naming the slug "other" was just answered 400 as the second
\* request of the caller's window, after a wrong password for "min": the
\* entry counts 2, the failure counter still shows 1 and the row of "min"
\* holds the default.
C15_Witness ==
    /\ resp.op = "login" /\ resp.slug = "other"
    /\ resp.status = 400
    /\ StateKey(RateIp, "admin_login") \in DOMAIN rate_limit_state
    /\ rate_limit_state[StateKey(RateIp, "admin_login")].count = 2
    /\ Failures(failed_login_state, StateKey(RateIp, "min")) = 1
    /\ timer_settings["min"] = DefaultRow

-----------------------------------------------------------------------------
\* The rate check turns a request on entry k away: the entry is blocked, or
\* its window has counted limit requests already.
RateLimited(k, limit) ==
    IF k \in DOMAIN rate_limit_state
    THEN \/ rate_limit_state[k].blocked_until > now
         \/ InWindow(rate_limit_state[k]) /\ rate_limit_state[k].count >= limit
    ELSE FALSE

\* C16: a login runs RateCheck, ValidateTenant, CredentialCheck and
\* IssueTokens in this order and stops at the first failure: a rate-limited
\* caller gets 429 even with a valid slug and the correct password; an
\* admitted request with an invalid slug gets 400 whatever the password;
\* 403 is returned only to an admitted request with a valid slug; and
\* tokens, one access and one refresh token, are returned only when all
\* three checks pass.
C16_Step ==
    resp'.op = "login" =>
      LET limited == RateLimited(LoginEntry(resp'), 10)
          valid == resp'.slug \in Slugs
      IN
      /\ limited => resp'.status = 429
      /\ (~limited /\ ~valid) => resp'.status = 400
      /\ (~limited /\ valid /\ ~RightPassword(resp')) => resp'.status = 403
      /\ resp'.status = 403 => ~limited /\ valid
      /\ (~limited /\ valid /\ RightPassword(resp')) =>
            /\ resp'.status = 200
            /\ resp'.access_token # NoToken
            /\ resp'.refresh_token # NoToken
      /\ Issues(resp') => ~limited /\ valid /\ RightPassword(resp')

C16_LoginCheckOrder == [][C16_Step]_vars

\* A login to "se" with the correct password was just answered 429: the
\* caller is blocked, and no token was returned.
C16_Witness ==
    /\ resp.op = "login" /\ resp.slug = "se"
    /\ resp.password = "pw-se"
    /\ ADMIN_PASSWORD["se"] = "pw-se"
    /\ resp.status = 429
    /\ ~Issues(resp)

-----------------------------------------------------------------------------
\* C17: an admitted login with a valid slug and a wrong password is
\* answered 403 and raises the failed-attempt counter of (caller, tenant)
\* by exactly 1, leaving the other counters as they were; the warning is
\* printed on that attempt if and only if the counter after the increment
\* is at least 5, and it names that count.  A login answered 429 or 400
\* leaves every counter unchanged and prints nothing.
C17_Step ==
    resp'.op = "login" =>
      LET k == Pair(resp')
          before == Failures(failed_login_state, k)
      IN
      /\ (/\ ~RateLimited(LoginEntry(resp'), 10)
          /\ resp'.slug \in Slugs
          /\ ~RightPassword(resp'))
            => /\ resp'.status = 403
               /\ k \in DOMAIN failed_login_state'
               /\ failed_login_state'[k] = before + 1
               /\ OthersKept(k)
               /\ (printed' # 0) <=> (before + 1 >= 5)
               /\ printed' # 0 => printed' = before + 1
      /\ resp'.status \in {429, 400}
            => /\ failed_login_state' = failed_login_state
               /\ printed' = 0

C17_WrongPasswordCounts == [][C17_Step]_vars

\* The fifth wrong password in a row for "se" was just answered 403: the
\* counter shows 5 and the warning was printed with that count.
C17_Witness ==
    /\ resp.op = "login" /\ resp.ip = RateIp /\ resp.slug = "se"
    /\ resp.password = "wrong"
    /\ resp.status = 403
    /\ Failures(failed_login_state, StateKey(RateIp, "se")) = 5
    /\ printed = 5

-----------------------------------------------------------------------------
\* The rate-limit entry of the caller of the refresh just answered.
RefreshEntry(r) == r.ip \o ":admin_refresh"

\* C18: a refresh that is not rate-limited and presents a token signed with
\* the refresh secret, not yet expired, for a slug of the closed set is
\* answered 200 with one new access token for that slug and no refresh
\* token, every time it is presented until its expiry; a refresh that is
\* not rate-limited and presents an expired, wrongly signed or malformed
\* token, or one for an unknown tenant, is answered 401 with no token; and
\* 429 is answered to rate-limited refreshes only.
C18_Step ==
    resp'.op = "refresh" =>
      LET tok == resp'.presented
          limited == RateLimited(RefreshEntry(resp'), 30)
      IN
      /\ limited <=> resp'.status = 429
      /\ (/\ ~limited
          /\ tok.key = REFRESH_SECRET
          /\ tok.exp > now
          /\ tok.slug \in Slugs)
            => /\ resp'.status = 200
               /\ resp'.access_token # NoToken
               /\ resp'.access_token.slug = tok.slug
               /\ resp'.access_token.key = JWT_SECRET
               /\ resp'.refresh_token = NoToken
               /\ wallet'.refresh = wallet.refresh
      /\ (/\ ~limited
          /\ \/ tok.key # REFRESH_SECRET
             \/ tok.exp < now
             \/ tok.slug \notin Slugs)
            => /\ resp'.status = 401
               /\ ~Issues(resp')
      /\ resp'.status # 200 => ~Issues(resp')

C18_RefreshIssuesAccessOnly == [][C18_Step]_vars

\* One second before its seven days are over, the refresh token of the
\* login was just accepted for the second time in this window and answered
\* with an access token for "se" and no refresh token.
C18_Witness ==
    /\ resp.op = "refresh"
    /\ resp.status = 200
    /\ resp.presented = wallet.refresh
    /\ resp.presented.exp = now + 1
    /\ resp.access_token.slug = "se"
    /\ resp.refresh_token = NoToken
    /\ StateKey(RateIp, "admin_refresh") \in DOMAIN rate_limit_state
    /\ rate_limit_state[StateKey(RateIp, "admin_refresh")].count = 2

-----------------------------------------------------------------------------
\* C19: a rate-limited request of caller ip on endpoint key writes the
\* entry of (ip, key) and no other, and whether it is answered 429 depends
\* on that entry alone: logins neither use up nor block the refreshes of
\* the same caller, refreshes neither use up nor block its logins, and a
\* blocked caller never makes a request from another ip blocked.
C19_Step ==
    resp'.op \in {"login", "refresh"} =>
      LET k == IF resp'.op = "login" THEN LoginEntry(resp')
               ELSE RefreshEntry(resp')
          limit == IF resp'.op = "login" THEN 10 ELSE 30
      IN
      /\ k \in DOMAIN rate_limit_state'
      /\ \A k2 \in (DOMAIN rate_limit_state \cup DOMAIN rate_limit_state') \ {k} :
            /\ k2 \in DOMAIN rate_limit_state
            /\ k2 \in DOMAIN rate_limit_state'
            /\ rate_limit_state'[k2] = rate_limit_state[k2]
      /\ (resp'.status = 429) <=> RateLimited(k, limit)

C19_EntriesAreIsolated == [][C19_Step]_vars

\* The logins of the first caller were blocked at startup and still are a
\* minute later, when its refresh and, just now, a login of the second
\* caller were let through, each opening a window of its own entry.
C19_Witness ==
    /\ now > Epoch0
    /\ resp.op = "login" /\ resp.ip = OtherIp /\ resp.status = 400
    /\ {RateIp \o ":admin_login", RateIp \o ":admin_refresh",
        OtherIp \o ":admin_login"} \subseteq DOMAIN rate_limit_state
    /\ rate_limit_state[RateIp \o ":admin_login"].blocked_until
          = Epoch0 + BlockSec
    /\ rate_limit_state[RateIp \o ":admin_refresh"] =
          [window_start |-> now, count |-> 1, blocked_until |-> 0]
    /\ rate_limit_state[OtherIp \o ":admin_login"] =
          [window_start |-> now, count |-> 1, blocked_until |-> 0]

-----------------------------------------------------------------------------
\* The limit of the endpoint an entry belongs to.
EntryLimit(k) ==
    IF k \in {ip \o ":admin_login" : ip \in Ips} THEN 10 ELSE 30

\* C20: with the parameters of login and refresh, every entry has
\* 1 <= count <= limit + 1, and its blocked_until is non-zero exactly when
\* count = limit + 1; an entry, once created, is never removed.
C20_Entries ==
    \A k \in DOMAIN rate_limit_state :
        /\ 1 <= rate_limit_state[k].count
        /\ rate_limit_state[k].count <= EntryLimit(k) + 1
        /\ (rate_limit_state[k].blocked_until # 0)
              <=> (rate_limit_state[k].count = EntryLimit(k) + 1)

C20_Step == DOMAIN rate_limit_state \subseteq DOMAIN rate_limit_state'

C20_EntryInvariants == []C20_Entries /\ [][C20_Step]_vars

\* The refresh entry of the caller counted its 31st request at startup and
\* was blocked for an hour; the hour is over and the entry is still there,
\* unchanged, as no request has come since.
C20_Witness ==
    /\ now > Epoch0 + BlockSec
    /\ (RateIp \o ":admin_refresh") \in DOMAIN rate_limit_state
    /\ rate_limit_state[RateIp \o ":admin_refresh"] =
          [window_start |-> Epoch0, count |-> 31,
           blocked_until |-> Epoch0 + BlockSec]

====
